---- MODULE Spec2Model ----
(***************************************************************************)
(* TallyUp calculator: the input state machine (js/calculator.js), the     *)
(* display (js/display.js), number formatting (js/utils.js) and the        *)
(* arithmetic engine and history (the Operations / MemoryOperations        *)
(* classes whose source is appended to README.md).                         *)
(*                                                                         *)
(* Strings are sequences of one-character strings.  A JavaScript value is  *)
(* a record [k, neg, mag, scale]:                                          *)
(*   k = "num"   a finite number (-1)^neg * mag * 10^(-scale); mag is a    *)
(*               natural number as the sequence of its decimal digits,     *)
(*               least significant first, without leading zeros            *)
(*   k = "nan", "inf"   the numbers NaN and +/-Infinity                    *)
(*   k = "null"         null                                               *)
(*   k = "Error", "Infinity", "-Infinity"   the three sentinel strings     *)
(* IEEE doubles are modelled as exact decimals: +, - and * are exact and   *)
(* a quotient carries DivDigits fractional digits plus a sticky digit.     *)
(***************************************************************************)
EXTENDS Integers, Sequences, FiniteSets, TLC

\* ------------------------------------------------------------------------
\* Natural numbers as digit sequences, least significant digit first.

RECURSIVE BStrip(_)
BStrip(a) ==
  IF a = <<>> THEN a
  ELSE IF a[Len(a)] # 0 THEN a
  ELSE BStrip(SubSeq(a, 1, Len(a) - 1))

RECURSIVE BAddC(_, _, _)
BAddC(a, b, c) ==
  IF a = <<>> /\ b = <<>> THEN (IF c = 0 THEN <<>> ELSE <<c>>)
  ELSE LET x == IF a = <<>> THEN 0 ELSE Head(a)
           y == IF b = <<>> THEN 0 ELSE Head(b)
           s == x + y + c
       IN  <<s % 10>> \o BAddC(IF a = <<>> THEN a ELSE Tail(a),
                               IF b = <<>> THEN b ELSE Tail(b), s \div 10)

BAdd(a, b) == BAddC(a, b, 0)

RECURSIVE BSubB(_, _, _)
BSubB(a, b, c) ==
  IF a = <<>> THEN <<>>
  ELSE LET y == IF b = <<>> THEN 0 ELSE Head(b)
           d == Head(a) - y - c
       IN  <<IF d < 0 THEN d + 10 ELSE d>>
             \o BSubB(Tail(a), IF b = <<>> THEN b ELSE Tail(b),
                      IF d < 0 THEN 1 ELSE 0)

\* a - b for a >= b
BSub(a, b) == BStrip(BSubB(a, b, 0))

RECURSIVE BLessAt(_, _, _)
BLessAt(a, b, i) ==
  IF i = 0 THEN FALSE
  ELSE IF a[i] # b[i] THEN a[i] < b[i]
  ELSE BLessAt(a, b, i - 1)

BLess(a, b) ==
  IF Len(a) # Len(b) THEN Len(a) < Len(b) ELSE BLessAt(a, b, Len(a))

RECURSIVE BMulSmallC(_, _, _)
BMulSmallC(a, k, c) ==
  IF a = <<>> THEN (IF c = 0 THEN <<>> ELSE <<c>>)
  ELSE LET p == Head(a) * k + c
       IN  <<p % 10>> \o BMulSmallC(Tail(a), k, p \div 10)

BMulSmall(a, k) == IF k = 0 THEN <<>> ELSE BMulSmallC(a, k, 0)

\* a * 10^n
BShift(a, n) == IF a = <<>> THEN a ELSE [i \in 1..n |-> 0] \o a

RECURSIVE BMul(_, _)
BMul(a, b) ==
  IF a = <<>> \/ b = <<>> THEN <<>>
  ELSE LET rest == BMul(a, Tail(b))
       IN  IF rest = <<>> THEN BMulSmall(a, Head(b))
           ELSE BAdd(BMulSmall(a, Head(b)), <<0>> \o rest)

RECURSIVE BQuot(_, _, _)
BQuot(r, b, k) ==
  IF BLess(r, b) THEN [q |-> k, r |-> r] ELSE BQuot(BSub(r, b), b, k + 1)

\* e, once v has been evaluated.  TLC evaluates the definitions of a LET
\* and the arguments of an operator only when they are used; naming an
\* intermediate result here keeps a long chain of pending results from
\* being evaluated one inside the other.
Force(v, e) == IF v = v THEN e ELSE e

\* Long division of the digits lo..hi of a by b, entered with remainder r:
\* one quotient digit per digit of a, and the remainder left.
RECURSIVE BDivRange(_, _, _, _, _)
BDivRange(a, b, lo, hi, r) ==
  IF lo = hi
    THEN LET Digit(s) == [q |-> <<s.q>>, r |-> s.r]
         IN  Digit(BQuot(BStrip(<<a[lo]>> \o r), b, 0))
  ELSE LET Join(top, bot) ==
             Force(top, Force(bot, [q |-> bot.q \o top.q, r |-> bot.r]))
           Lower(top) ==
             Join(top, BDivRange(a, b, lo, (lo + hi) \div 2, top.r))
       IN  Lower(BDivRange(a, b, (lo + hi) \div 2 + 1, hi, r))

\* quotient and remainder of a by b, b # 0
BDivMod(a, b) ==
  IF a = <<>> THEN [q |-> <<>>, r |-> <<>>]
  ELSE LET Stripped(d) == [q |-> BStrip(d.q), r |-> d.r]
       IN  Stripped(BDivRange(a, b, 1, Len(a), <<>>))

\* 10^n
BPow10(n) == [i \in 1..(n + 1) |-> IF i = n + 1 THEN 1 ELSE 0]

\* ------------------------------------------------------------------------
\* JavaScript values.

JsVal(k, neg, mag, scale) == [k |-> k, neg |-> neg, mag |-> mag, scale |-> scale]

Null == JsVal("null", FALSE, <<>>, 0)
NaN == JsVal("nan", FALSE, <<>>, 0)
Infinity == JsVal("inf", FALSE, <<>>, 0)
NegInfinity == JsVal("inf", TRUE, <<>>, 0)
StrError == JsVal("Error", FALSE, <<>>, 0)
StrInfinity == JsVal("Infinity", FALSE, <<>>, 0)
StrNegInfinity == JsVal("-Infinity", FALSE, <<>>, 0)

\* A finite number in normal form: no trailing fractional zero, and zero
\* is unsigned (toString and toFixed print -0 and 0 alike, and
\* fixPrecision maps -0 to 0).
RECURSIVE Num(_, _, _)
Num(neg, mag, scale) ==
  IF mag = <<>> THEN JsVal("num", FALSE, <<>>, 0)
  ELSE IF scale > 0 /\ Head(mag) = 0 THEN Num(neg, Tail(mag), scale - 1)
  ELSE IF scale < 0 THEN JsVal("num", neg, BShift(mag, 0 - scale), 0)
  ELSE JsVal("num", neg, mag, scale)

Zero == JsVal("num", FALSE, <<>>, 0)
Hundred == JsVal("num", FALSE, <<0, 0, 1>>, 0)

\* typeof v === 'number'
IsNumber(v) == v.k \in {"num", "nan", "inf"}
\* the global isNaN(v), which converts a string to a number first
isNaN(v) == v.k \in {"nan", "Error"}
\* the global isFinite(v)
isFinite(v) == v.k \in {"num", "null"}

IsZero(v) == v.k = "num" /\ v.mag = <<>>
\* v > 0 for a number v
IsPos(v) == (v.k = "num" /\ v.mag # <<>> /\ ~v.neg) \/ (v.k = "inf" /\ ~v.neg)

Max(a, b) == IF a >= b THEN a ELSE b
Min(a, b) == IF a <= b THEN a ELSE b

\* Math.abs(x) < y for finite x, y >= 0
AbsLess(x, y) ==
  BLess(BShift(x.mag, Max(x.scale, y.scale) - x.scale),
        BShift(y.mag, Max(x.scale, y.scale) - y.scale))

\* x + y for finite x, y
DAdd(x, y) ==
  LET Sum(xm, ym, s) ==
        IF x.neg = y.neg THEN Num(x.neg, BAdd(xm, ym), s)
        ELSE IF BLess(xm, ym) THEN Num(y.neg, BSub(ym, xm), s)
        ELSE Num(x.neg, BSub(xm, ym), s)
  IN  Sum(BShift(x.mag, Max(x.scale, y.scale) - x.scale),
          BShift(y.mag, Max(x.scale, y.scale) - y.scale),
          Max(x.scale, y.scale))

\* -x
jsNeg(x) ==
  IF x.k = "num" THEN Num(~x.neg, x.mag, x.scale)
  ELSE IF x.k = "inf" THEN JsVal("inf", ~x.neg, <<>>, 0)
  ELSE x

\* a + b on numbers
jsAdd(a, b) ==
  IF a.k = "nan" \/ b.k = "nan" THEN NaN
  ELSE IF a.k = "inf" /\ b.k = "inf" THEN (IF a.neg = b.neg THEN a ELSE NaN)
  ELSE IF a.k = "inf" THEN a
  ELSE IF b.k = "inf" THEN b
  ELSE DAdd(a, b)

\* a - b on numbers
jsSub(a, b) == jsAdd(a, jsNeg(b))

\* a * b on numbers
jsMul(a, b) ==
  IF a.k = "nan" \/ b.k = "nan" THEN NaN
  ELSE IF a.k = "inf" \/ b.k = "inf"
    THEN (IF IsZero(a) \/ IsZero(b) THEN NaN
          ELSE JsVal("inf", a.neg # b.neg, <<>>, 0))
  ELSE Num(a.neg # b.neg, BMul(a.mag, b.mag), a.scale + b.scale)

\* Significant digits a quotient carries before the sticky digit.
DivDigits == 17

\* the number of trailing zeros of a natural number # 0
RECURSIVE LowZeros(_)
LowZeros(mag) == IF Head(mag) # 0 THEN 0 ELSE 1 + LowZeros(Tail(mag))

\* x / y for finite x and finite y # 0: exact when y is a power of ten
\* (only the point moves), else the quotient cut after at least DivDigits
\* significant digits, followed by a sticky digit when inexact.
DDiv(x, y) ==
  IF y.mag[Len(y.mag)] = 1 /\ LowZeros(y.mag) = Len(y.mag) - 1
    THEN Num(x.neg # y.neg, x.mag, x.scale - y.scale + Len(y.mag) - 1)
  ELSE LET Quotient(dm, p) ==
             Num(x.neg # y.neg,
                 IF dm.r = <<>> THEN BShift(dm.q, 1) ELSE <<1>> \o dm.q,
                 p + 1 + x.scale - y.scale)
       IN  Quotient(BDivMod(BShift(x.mag, DivDigits + Len(y.mag)), y.mag),
                    DivDigits + Len(y.mag))

\* a / b on numbers
jsDiv(a, b) ==
  IF a.k = "nan" \/ b.k = "nan" THEN NaN
  ELSE IF a.k = "inf" THEN (IF b.k = "inf" THEN NaN
                            ELSE JsVal("inf", a.neg # b.neg, <<>>, 0))
  ELSE IF b.k = "inf" THEN Zero
  ELSE IF IsZero(b) THEN (IF IsZero(a) THEN NaN
                          ELSE JsVal("inf", a.neg, <<>>, 0))
  ELSE DDiv(a, b)

\* The integer nearest to mag / 10^d (as digits); a tie goes up iff tieUp.
RoundMag(mag, d, tieUp) ==
  IF d <= 0 THEN BShift(mag, 0 - d)
  ELSE LET Rounded(kept, low, half) ==
             IF (IF low = half THEN tieUp ELSE BLess(half, low))
               THEN BAdd(kept, <<1>>) ELSE kept
       IN  Rounded(IF d >= Len(mag) THEN <<>> ELSE SubSeq(mag, d + 1, Len(mag)),
                   BStrip(SubSeq(mag, 1, IF d >= Len(mag) THEN Len(mag) ELSE d)),
                   BShift(<<5>>, d - 1))

\* ------------------------------------------------------------------------
\* Strings and the number <-> string conversions of the language.

DigitChars == <<"0", "1", "2", "3", "4", "5", "6", "7", "8", "9">>
IsDigit(c) == \E i \in 1..10 : DigitChars[i] = c
DigitVal(c) == (CHOOSE i \in 1..10 : DigitChars[i] = c) - 1
\* \w of a regular expression, over the characters a display string can hold
IsWordChar(c) == IsDigit(c) \/ c \in {"e", "E", "r", "o", "I", "n", "f", "i", "t", "y"}

SError == <<"E", "r", "r", "o", "r">>
SInfinity == <<"I", "n", "f", "i", "n", "i", "t", "y">>
SNegInfinity == <<"-">> \o SInfinity

\* the digits of a natural number, most significant first ("" for 0)
MagChars(mag) == [i \in 1..Len(mag) |-> DigitChars[mag[Len(mag) + 1 - i] + 1]]
\* the natural number a run of digit characters denotes
CharsMag(cs) == BStrip([i \in 1..Len(cs) |-> DigitVal(cs[Len(cs) + 1 - i])])
Zeros(n) == [i \in 1..n |-> "0"]
\* a small natural number in decimal
RECURSIVE NatChars(_)
NatChars(n) ==
  IF n < 10 THEN <<DigitChars[n + 1]>>
  ELSE NatChars(n \div 10) \o <<DigitChars[(n % 10) + 1]>>
RECURSIVE CharsNat(_)
CharsNat(cs) ==
  IF cs = <<>> THEN 0
  ELSE 10 * CharsNat(SubSeq(cs, 1, Len(cs) - 1)) + DigitVal(cs[Len(cs)])

Includes(s, c) == \E i \in 1..Len(s) : s[i] = c
\* s.slice(i) with i counted from 1
From(s, i) == SubSeq(s, i, Len(s))
StartsWith(s, p) == Len(s) >= Len(p) /\ SubSeq(s, 1, Len(p)) = p

\* the end (exclusive) of the run of digits of s that starts at i
RECURSIVE DigitsEnd(_, _)
DigitsEnd(s, i) ==
  IF i <= Len(s) /\ IsDigit(s[i]) THEN DigitsEnd(s, i + 1) ELSE i

\* Number.prototype.toFixed(n) of a finite x
toFixed(x, n) ==
  LET Point(ds) ==
        (IF x.neg THEN <<"-">> ELSE <<>>) \o SubSeq(ds, 1, Len(ds) - n)
          \o (IF n > 0 THEN <<".">> \o From(ds, Len(ds) - n + 1) ELSE <<>>)
      Padded(cs) ==
        Point(IF Len(cs) < n + 1 THEN Zeros(n + 1 - Len(cs)) \o cs ELSE cs)
  IN  Padded(MagChars(RoundMag(x.mag, x.scale - n, TRUE)))

\* Number.prototype.toExponential(f) of a finite x
toExponential(x, f) ==
  IF x.mag = <<>> THEN <<"0">> \o (IF f > 0 THEN <<".">> \o Zeros(f) ELSE <<>>)
                        \o <<"e", "+", "0">>
  ELSE
    LET Shown(ds, e) ==
          (IF x.neg THEN <<"-">> ELSE <<>>) \o <<ds[1]>>
            \o (IF f > 0 THEN <<".">> \o From(ds, 2) ELSE <<>>)
            \o <<"e", IF e < 0 THEN "-" ELSE "+">>
            \o NatChars(IF e < 0 THEN 0 - e ELSE e)
        \* m longer than f + 1 digits was rounded up to the next power of ten
        Rounded(m) ==
          Shown(SubSeq(MagChars(m), 1, f + 1),
                Len(x.mag) - x.scale - 1 + (IF Len(m) > f + 1 THEN 1 ELSE 0))
    IN  Rounded(RoundMag(x.mag, Len(x.mag) - (f + 1), TRUE))

\* Number.prototype.toString() of a number
toString(x) ==
  IF x.k = "nan" THEN <<"N", "a", "N">>
  ELSE IF x.k = "inf" THEN (IF x.neg THEN SNegInfinity ELSE SInfinity)
  ELSE IF x.mag = <<>> THEN <<"0">>
  ELSE
    \* x = 0.d1d2...dk * 10^n, sd the k significant digits
    LET Shown(sign, sd, k, n) ==
          IF k <= n /\ n <= 21 THEN sign \o sd \o Zeros(n - k)
          ELSE IF 0 < n /\ n <= 21
            THEN sign \o SubSeq(sd, 1, n) \o <<".">> \o From(sd, n + 1)
          ELSE IF -6 < n /\ n <= 0
            THEN sign \o <<"0", ".">> \o Zeros(0 - n) \o sd
          ELSE sign \o <<sd[1]>>
                 \o (IF k > 1 THEN <<".">> \o From(sd, 2) ELSE <<>>)
                 \o <<"e", IF n - 1 < 0 THEN "-" ELSE "+">>
                 \o NatChars(IF n - 1 < 0 THEN 1 - n ELSE n - 1)
    IN  Shown(IF x.neg THEN <<"-">> ELSE <<>>,
              SubSeq(MagChars(x.mag), 1, Len(x.mag) - LowZeros(x.mag)),
              Len(x.mag) - LowZeros(x.mag),
              Len(x.mag) - x.scale)

\* parseFloat(s): the number the longest numeric prefix of s denotes
parseFloat(s) ==
  LET \* the exponent the digits s[j0..j1-1] after "e" and a sign denote
      Exponent(j0, j1) ==
        IF j1 <= j0 THEN 0
        ELSE IF s[j0 - 1] = "-" THEN 0 - CharsNat(SubSeq(s, j0, j1 - 1))
        ELSE CharsNat(SubSeq(s, j0, j1 - 1))
      ExponentFrom(j0) == Exponent(j0, DigitsEnd(s, j0))
      \* the exponent part that starts at i2, 0 if there is none
      ExponentAt(i2) ==
        IF i2 <= Len(s) /\ s[i2] \in {"e", "E"}
          THEN ExponentFrom(IF i2 + 1 <= Len(s) /\ s[i2 + 1] \in {"-", "+"}
                            THEN i2 + 2 ELSE i2 + 1)
        ELSE 0
      \* integer digits s[i0..i1-1], fraction digits s[i1+1..i2-1]
      Parsed(i0, i1, i2) ==
        IF StartsWith(From(s, i0), SInfinity)
          THEN JsVal("inf", i0 = 2 /\ s[1] = "-", <<>>, 0)
        ELSE IF i1 = i0 /\ i2 <= i1 + 1 THEN NaN
        ELSE Num(i0 = 2 /\ s[1] = "-",
                 CharsMag(SubSeq(s, i0, i1 - 1) \o SubSeq(s, i1 + 1, i2 - 1)),
                 (IF i2 > i1 THEN i2 - i1 - 1 ELSE 0) - ExponentAt(i2))
      Fraction(i0, i1) ==
        Parsed(i0, i1, IF i1 <= Len(s) /\ s[i1] = "."
                       THEN DigitsEnd(s, i1 + 1) ELSE i1)
      Integer(i0) == Fraction(i0, DigitsEnd(s, i0))
  IN  Integer(IF s # <<>> /\ s[1] \in {"-", "+"} THEN 2 ELSE 1)

\* ------------------------------------------------------------------------
\* Utils (js/utils.js)

\* formatNumber's default maxDecimals
MaxDecimals == 10
\* digits after the point in formatNumber's scientific notation
ExpDigits == 6

\* 1e15, 1e-10 and 1000, the thresholds of formatNumber
Large == JsVal("num", FALSE, BPow10(15), 0)
Small == JsVal("num", FALSE, <<1>>, 10)
Thousand == JsVal("num", FALSE, BPow10(3), 0)

IsNotComma(c) == c # ","
removeThousandsSeparator(numStr) == SelectSeq(numStr, IsNotComma)

\* the index of the first "." of s, Len(s) + 1 if it has none
RECURSIVE DotAt(_, _)
DotAt(s, i) == IF i > Len(s) \/ s[i] = "." THEN i ELSE DotAt(s, i + 1)

\* whether /\B(?=(\d{3})+(?!\d))/ matches in h before its i-th character
CommaBefore(h, i) ==
  /\ i >= 2
  /\ IsWordChar(h[i - 1])
  /\ IsWordChar(h[i])
  /\ LET r == DigitsEnd(h, i) - i IN r >= 3 /\ r % 3 = 0

RECURSIVE InsertCommas(_, _)
InsertCommas(h, i) ==
  IF i > Len(h) THEN <<>>
  ELSE (IF CommaBefore(h, i) THEN <<",">> ELSE <<>>) \o <<h[i]>>
         \o InsertCommas(h, i + 1)

addThousandsSeparator(numStr) ==
  LET d == DotAt(numStr, 1)
  IN  InsertCommas(SubSeq(numStr, 1, d - 1), 1) \o From(numStr, d)

formatNumber(num) ==
  IF ~IsNumber(num) \/ num.k = "nan" THEN SError
  ELSE IF num.k = "inf" THEN (IF IsPos(num) THEN SInfinity ELSE SNegInfinity)
  ELSE IF ~AbsLess(num, Large) \/ (AbsLess(num, Small) /\ ~IsZero(num))
    THEN toExponential(num, ExpDigits)
  ELSE LET Separated(formatted) ==
             IF ~AbsLess(num, Thousand) THEN addThousandsSeparator(formatted)
             ELSE formatted
       IN  Separated(toString(parseFloat(toFixed(num, MaxDecimals))))

toNumber(str) == parseFloat(removeThousandsSeparator(str))

\* ------------------------------------------------------------------------
\* Operations (README.md, lines 222-454)

\* fixPrecision's default precision
Precision == 15

\* Number.EPSILON = 2^-52 = 2.220446049250313e-16
NumberEPSILON ==
  JsVal("num", FALSE, <<3, 1, 3, 0, 5, 2, 9, 4, 0, 6, 4, 4, 0, 2, 2, 2>>, 31)

\* Math.round(x) of a finite x: the nearest integer, a tie towards +Infinity
MathRound(x) == Num(x.neg, RoundMag(x.mag, x.scale, ~x.neg), 0)

fixPrecision(value) ==
  IF AbsLess(value, NumberEPSILON) THEN Zero
  ELSE LET factor == Num(FALSE, BPow10(Precision), 0)
       IN  jsDiv(MathRound(jsMul(value, factor)), factor)

add(a, b) == jsAdd(a, b)
subtract(a, b) == jsSub(a, b)
multiply(a, b) == jsMul(a, b)

divide(a, b) ==
  IF IsZero(b) THEN (IF IsZero(a) THEN StrError
                     ELSE IF IsPos(a) THEN Infinity ELSE NegInfinity)
  ELSE jsDiv(a, b)

percentage(value) == jsDiv(value, Hundred)

\* calculate that returns Error for every result that is not finite
Operations_calculate_collapsed(a, b, operator) ==
  IF ~IsNumber(a) \/ ~IsNumber(b) THEN StrError
  ELSE IF isNaN(a) \/ isNaN(b) THEN StrError
  ELSE IF operator \notin {"+", "-", "×", "*", "÷", "/"} THEN StrError
  ELSE LET Checked(result) ==
             IF isNaN(result) \/ ~isFinite(result) THEN StrError
             ELSE fixPrecision(result)
       IN  Checked(CASE operator = "+" -> add(a, b)
                     [] operator = "-" -> subtract(a, b)
                     [] operator \in {"×", "*"} -> multiply(a, b)
                     [] operator \in {"÷", "/"} -> divide(a, b))

Operations_calculate(a, b, operator) ==
  IF ~IsNumber(a) \/ ~IsNumber(b) THEN StrError
  ELSE IF isNaN(a) \/ isNaN(b) THEN StrError
  ELSE IF operator \notin {"+", "-", "×", "*", "÷", "/"} THEN StrError
  ELSE LET Checked(result) ==
             IF isNaN(result) THEN StrError
             ELSE IF ~isFinite(result)
               THEN (IF IsPos(result) THEN StrInfinity ELSE StrNegInfinity)
             ELSE fixPrecision(result)
       IN  Checked(CASE operator = "+" -> add(a, b)
                     [] operator = "-" -> subtract(a, b)
                     [] operator \in {"×", "*"} -> multiply(a, b)
                     [] operator \in {"÷", "/"} -> divide(a, b))

isValidResult(result) ==
  IF result.k \in {"Error", "Infinity", "-Infinity"} THEN TRUE
  ELSE IsNumber(result) /\ result.k # "nan"

\* formatOperation(a, operator, b) with b given: a binary operation
formatOperation(a, operator, b) ==
  formatNumber(a) \o <<" ", operator, " ">> \o formatNumber(b)

\* ------------------------------------------------------------------------
\* The program state: one variable per object.
\*   display  the Display's currentValue, expression, isError and the text
\*            of its input element (displayInput)
\*   state    Calculator.state
\*   memory   the MemoryOperations' memory and history; a history entry is
\*            [operation, result] (its timestamp is not modelled)
\*   last     the handler that ran last, its argument and the branch it took
\*   steps    the number of keys pressed so far
\*   script   for a scripted run: the keys pressed from clear() on, and the
\*            history clear() was pressed with
\*   call     for a function called on its own: its name, its arguments,
\*            whether it has returned and the value it returned

VARIABLES display, state, memory, last, steps, script, call

vars == <<display, state, memory, last, steps, script, call>>

NoCall == [fn |-> "", args |-> <<>>, done |-> FALSE, result |-> Null]

NoOperator == "null"
Operators == {"+", "-", "×", "÷"}

\* ------------------------------------------------------------------------
\* Display (js/display.js)

\* the longest string shown as typed, and the longest numeral appendDigit grows
MaxDisplayLen == 15

\* x.toExponential(f) of any number
jsToExponential(x, f) ==
  IF x.k = "num" THEN toExponential(x, f) ELSE toString(x)

\* the string a sentinel value is
SentinelChars(v) ==
  IF v.k = "Infinity" THEN SInfinity
  ELSE IF v.k = "-Infinity" THEN SNegInfinity
  ELSE SError

updateDisplay(d, value) ==
  LET v == IF value = <<>> THEN <<"0">> ELSE value
  IN  [d EXCEPT !.currentValue = v,
                !.isError = v \in {SError, SInfinity, SNegInfinity},
                !.displayInput =
                   IF Len(v) > MaxDisplayLen /\ ~Includes(v, "e")
                   THEN jsToExponential(parseFloat(v), 6)
                   ELSE v]

updateExpression(d, expr) == [d EXCEPT !.expression = expr]

\* appendDigit that does not leave the error state first
appendDigit_stuck(d, digit) ==
  IF d.currentValue = <<"0">> /\ digit # "."
    THEN updateDisplay(d, <<digit>>)
  ELSE IF digit = "." /\ Includes(d.currentValue, ".") THEN d
  ELSE IF Len(d.currentValue) >= MaxDisplayLen THEN d
  ELSE updateDisplay(d, d.currentValue \o <<digit>>)

\* appendDigit without the limit on the input length
appendDigit_uncapped(d, digit) ==
  LET d1 == IF d.isError
            THEN [d EXCEPT !.isError = FALSE, !.currentValue = <<"0">>]
            ELSE d
  IN  IF d1.currentValue = <<"0">> /\ digit # "."
        THEN updateDisplay(d1, <<digit>>)
      ELSE IF digit = "." /\ Includes(d1.currentValue, ".") THEN d1
      ELSE updateDisplay(d1, d1.currentValue \o <<digit>>)

appendDigit(d, digit) ==
  LET d1 == IF d.isError
            THEN [d EXCEPT !.isError = FALSE, !.currentValue = <<"0">>]
            ELSE d
  IN  IF d1.currentValue = <<"0">> /\ digit # "."
        THEN updateDisplay(d1, <<digit>>)
      ELSE IF digit = "." /\ Includes(d1.currentValue, ".") THEN d1
      ELSE IF Len(d1.currentValue) >= MaxDisplayLen THEN d1
      ELSE updateDisplay(d1, d1.currentValue \o <<digit>>)

getCurrentValue(d) == IF d.isError THEN Zero ELSE toNumber(d.currentValue)

Display_clear(d) ==
  updateExpression(
    updateDisplay([d EXCEPT !.currentValue = <<"0">>, !.expression = <<>>,
                            !.isError = FALSE], <<"0">>),
    <<>>)

deleteLast(d) ==
  IF d.isError THEN Display_clear(d)
  ELSE updateDisplay(d, IF Len(d.currentValue) > 1
                        THEN SubSeq(d.currentValue, 1, Len(d.currentValue) - 1)
                        ELSE <<"0">>)

\* showResult(result, operation); operation = <<>> is the default ''
showResult(d, result, operation) ==
  LET Labelled(d1) ==
        IF operation # <<>> THEN updateExpression(d1, operation \o <<" ", "=">>)
        ELSE d1
  IN  Labelled(updateDisplay(d,
                 IF isValidResult(result)
                   THEN (IF IsNumber(result) THEN formatNumber(result)
                         ELSE SentinelChars(result))
                 ELSE SError))

hasDecimal(d) == Includes(d.currentValue, ".")

showAsPercentage(d) ==
  LET Shown(value) ==
        updateExpression(updateDisplay(d, formatNumber(percentage(value))),
                         formatNumber(value) \o <<"%">>)
  IN  Shown(getCurrentValue(d))

\* ------------------------------------------------------------------------
\* MemoryOperations (README.md, lines 459-558)

\* the number of entries the history keeps
HistoryLimit == 100

\* store(value), clear(), add(value) and subtract(value)
Memory_store(m, value) ==
  IF IsNumber(value) /\ ~isNaN(value) THEN [m EXCEPT !.memory = value] ELSE m

Memory_clear(m) == [m EXCEPT !.memory = Zero]

Memory_add(m, value) ==
  IF IsNumber(value) /\ ~isNaN(value)
    THEN [m EXCEPT !.memory = jsAdd(@, value)] ELSE m

Memory_subtract(m, value) ==
  IF IsNumber(value) /\ ~isNaN(value)
    THEN [m EXCEPT !.memory = jsSub(@, value)] ELSE m

\* addToHistory that keeps every entry
addToHistory_untrimmed(m, operation, result) ==
  [m EXCEPT !.history = <<[operation |-> operation, result |-> result]>> \o @]

addToHistory(m, operation, result) ==
  LET h == <<[operation |-> operation, result |-> result]>> \o m.history
  IN  [m EXCEPT !.history = IF Len(h) > HistoryLimit
                            THEN SubSeq(h, 1, HistoryLimit) ELSE h]

\* arr.slice(0, end)
slice(arr, end) ==
  SubSeq(arr, 1, IF end < 0 THEN Max(Len(arr) + end, 0) ELSE Min(end, Len(arr)))

getHistory(m, limit) == slice(m.history, limit)

clearHistory(m) == [m EXCEPT !.history = <<>>]

\* ------------------------------------------------------------------------
\* Calculator (js/calculator.js)

\* resetState() that leaves the operator in place
resetState_keepingOperator(s) ==
  [s EXCEPT !.previousValue = Null,
            !.waitingForOperand = FALSE, !.lastOperation = Null]

resetState(s) ==
  [s EXCEPT !.previousValue = Null, !.currentOperator = NoOperator,
            !.waitingForOperand = FALSE, !.lastOperation = Null]

\* calculate() that records only the evaluations that give a number
Calculator_calculate_forgetful(d, s, m) ==
  LET Evaluated(currentValue, result) ==
        IF IsNumber(result)
          THEN [result |-> result,
                memory |-> addToHistory(m,
                             formatOperation(s.previousValue, s.currentOperator,
                                             currentValue),
                             result)]
        ELSE [result |-> Null, memory |-> m]
      With(currentValue) ==
        IF s.previousValue = Null \/ s.currentOperator = NoOperator
          THEN [result |-> currentValue, memory |-> m]
        ELSE Evaluated(currentValue,
                       Operations_calculate(s.previousValue, currentValue,
                                            s.currentOperator))
  IN  With(getCurrentValue(d))

\* calculate() with the operands of Operations.calculate exchanged
Calculator_calculate_swapped(d, s, m) ==
  LET Evaluated(currentValue, result) ==
        [result |-> IF IsNumber(result) THEN result ELSE Null,
         memory |-> addToHistory(m,
                      formatOperation(s.previousValue, s.currentOperator,
                                      currentValue),
                      result)]
      With(currentValue) ==
        IF s.previousValue = Null \/ s.currentOperator = NoOperator
          THEN [result |-> currentValue, memory |-> m]
        ELSE Evaluated(currentValue,
                       Operations_calculate(currentValue, s.previousValue,
                                            s.currentOperator))
  IN  With(getCurrentValue(d))

\* calculate(): the value returned (Null for null) and the memory left
Calculator_calculate(d, s, m) ==
  LET Evaluated(currentValue, result) ==
        [result |-> IF IsNumber(result) THEN result ELSE Null,
         memory |-> addToHistory(m,
                      formatOperation(s.previousValue, s.currentOperator,
                                      currentValue),
                      result)]
      With(currentValue) ==
        IF s.previousValue = Null \/ s.currentOperator = NoOperator
          THEN [result |-> currentValue, memory |-> m]
        ELSE Evaluated(currentValue,
                       Operations_calculate(s.previousValue, currentValue,
                                            s.currentOperator))
  IN  With(getCurrentValue(d))

\* Each handler maps the objects (display d, state s, memory m) it is
\* entered with to the objects it leaves, and names the branch it took.

Outcome(d, s, m, branch) ==
  [display |-> d, state |-> s, memory |-> m, branch |-> branch]

\* inputNumber that appends to a result: justCalculated is not looked at
inputNumber_append(d, s, m, digit) ==
  IF s.waitingForOperand
    THEN Outcome(updateDisplay(d, <<digit>>),
                 [s EXCEPT !.waitingForOperand = FALSE, !.justCalculated = FALSE],
                 m, "replace")
  ELSE Outcome(appendDigit(d, digit), s, m, "append")

inputNumber(d, s, m, digit) ==
  IF s.waitingForOperand
    THEN Outcome(updateDisplay(d, <<digit>>),
                 [s EXCEPT !.waitingForOperand = FALSE, !.justCalculated = FALSE],
                 m, "replace")
  ELSE IF s.justCalculated
    THEN Outcome(appendDigit(Display_clear(d), digit),
                 [s EXCEPT !.justCalculated = FALSE], m, "fresh")
  ELSE Outcome(appendDigit(d, digit), s, m, "append")

\* inputOperator without chaining: a pending operation is never evaluated,
\* the operator pressed takes the displayed value as its left operand
inputOperator_noChain(d, s, m, operator) ==
  Outcome(updateExpression(d, formatNumber(getCurrentValue(d))
                                \o <<" ", operator>>),
          [s EXCEPT !.previousValue = getCurrentValue(d),
                    !.currentOperator = operator,
                    !.waitingForOperand = TRUE, !.justCalculated = FALSE],
          m, IF s.previousValue = Null THEN "first" ELSE "reselect")

\* inputOperator that evaluates whenever an operator is pending, also when
\* no operand has been entered since (waitingForOperand is not looked at)
inputOperator_eager(d, s, m, operator) ==
  LET Selected(d1, pv, m1, branch) ==
        Outcome(updateExpression(d1, formatNumber(pv) \o <<" ", operator>>),
                [s EXCEPT !.previousValue = pv, !.currentOperator = operator,
                          !.waitingForOperand = TRUE, !.justCalculated = FALSE],
                m1, branch)
      Chained(c) ==
        IF c.result # Null
          THEN Selected(updateDisplay(d, formatNumber(c.result)), c.result,
                        c.memory, "chain")
        ELSE Selected(d, s.previousValue, c.memory, "chainfail")
  IN  IF s.previousValue = Null
        THEN Selected(d, getCurrentValue(d), m, "first")
      ELSE IF s.currentOperator # NoOperator
        THEN Chained(Calculator_calculate(d, s, m))
      ELSE Selected(d, getCurrentValue(d), m, "reselect")

inputOperator(d, s, m, operator) ==
  LET \* the tail of the handler, entered with the display d1, the
      \* previousValue pv and the memory m1 its first part leaves
      Selected(d1, pv, m1, branch) ==
        Outcome(updateExpression(d1, formatNumber(pv) \o <<" ", operator>>),
                [s EXCEPT !.previousValue = pv, !.currentOperator = operator,
                          !.waitingForOperand = TRUE, !.justCalculated = FALSE],
                m1, branch)
      Chained(c) ==
        IF c.result # Null
          THEN Selected(updateDisplay(d, formatNumber(c.result)), c.result,
                        c.memory, "chain")
        ELSE Selected(d, s.previousValue, c.memory, "chainfail")
  IN  IF s.previousValue = Null
        THEN Selected(d, getCurrentValue(d), m, "first")
      ELSE IF s.currentOperator # NoOperator /\ ~s.waitingForOperand
        THEN Chained(Calculator_calculate(d, s, m))
      ELSE Selected(d, getCurrentValue(d), m, "reselect")

\* equals that does not ask for a pending operator and a previousValue
equals_always(d, s, m) ==
  LET Shown(c) ==
        IF c.result # Null
          THEN Outcome(showResult(d, c.result,
                         formatOperation(s.previousValue, s.currentOperator,
                                         getCurrentValue(d))),
                       [resetState(s) EXCEPT !.justCalculated = TRUE],
                       c.memory, "ok")
        ELSE Outcome(showResult(d, StrError, <<>>), resetState(s),
                     c.memory, "fail")
  IN  Shown(Calculator_calculate(d, s, m))

\* equals that keeps the pending operation after showing its result
equals_keeping(d, s, m) ==
  LET Shown(c) ==
        IF c.result # Null
          THEN Outcome(showResult(d, c.result,
                         formatOperation(s.previousValue, s.currentOperator,
                                         getCurrentValue(d))),
                       [s EXCEPT !.justCalculated = TRUE],
                       c.memory, "ok")
        ELSE Outcome(showResult(d, StrError, <<>>), resetState(s),
                     c.memory, "fail")
  IN  IF s.currentOperator # NoOperator /\ s.previousValue # Null
        THEN Shown(Calculator_calculate(d, s, m))
      ELSE Outcome(d, s, m, "noop")

\* equals that leaves the display as it is when the evaluation fails
equals_silent(d, s, m) ==
  LET Shown(c) ==
        IF c.result # Null
          THEN Outcome(showResult(d, c.result,
                         formatOperation(s.previousValue, s.currentOperator,
                                         getCurrentValue(d))),
                       [resetState(s) EXCEPT !.justCalculated = TRUE],
                       c.memory, "ok")
        ELSE Outcome(d, resetState(s), c.memory, "fail")
  IN  IF s.currentOperator # NoOperator /\ s.previousValue # Null
        THEN Shown(Calculator_calculate(d, s, m))
      ELSE Outcome(d, s, m, "noop")

equals(d, s, m) ==
  LET Shown(c) ==
        IF c.result # Null
          THEN Outcome(showResult(d, c.result,
                         formatOperation(s.previousValue, s.currentOperator,
                                         getCurrentValue(d))),
                       [resetState(s) EXCEPT !.justCalculated = TRUE],
                       c.memory, "ok")
        ELSE Outcome(showResult(d, StrError, <<>>), resetState(s),
                     c.memory, "fail")
  IN  IF s.currentOperator # NoOperator /\ s.previousValue # Null
        THEN Shown(Calculator_calculate(d, s, m))
      ELSE Outcome(d, s, m, "noop")

\* clear that also empties the memory object
Calculator_clear_memory(d, s, m) ==
  Outcome(Display_clear(d), resetState(s), [memory |-> Zero, history |-> <<>>],
          "clear")

Calculator_clear(d, s, m) == Outcome(Display_clear(d), resetState(s), m, "clear")

\* delete that does not look at waitingForOperand
Calculator_delete_always(d, s, m) == Outcome(deleteLast(d), s, m, "delete")

Calculator_delete(d, s, m) ==
  IF ~s.waitingForOperand THEN Outcome(deleteLast(d), s, m, "delete")
  ELSE Outcome(d, s, m, "noop")

\* inputDecimal that appends "." without asking hasDecimal()
inputDecimal_unguarded(d, s, m) ==
  IF s.waitingForOperand
    THEN Outcome(updateDisplay(d, <<"0", ".">>),
                 [s EXCEPT !.waitingForOperand = FALSE], m, "replace")
  ELSE Outcome(updateDisplay(d, d.currentValue \o <<".">>), s, m, "append")

inputDecimal(d, s, m) ==
  IF s.waitingForOperand
    THEN Outcome(updateDisplay(d, <<"0", ".">>),
                 [s EXCEPT !.waitingForOperand = FALSE], m, "replace")
  ELSE IF ~hasDecimal(d) THEN Outcome(appendDigit(d, "."), s, m, "append")
  ELSE Outcome(d, s, m, "noop")

\* percentage that gives up the pending operation
Calculator_percentage_consuming(d, s, m) ==
  Outcome(showAsPercentage(d), [resetState(s) EXCEPT !.justCalculated = TRUE],
          m, "percentage")

Calculator_percentage(d, s, m) ==
  Outcome(showAsPercentage(d), [s EXCEPT !.justCalculated = TRUE], m,
          "percentage")

\* ------------------------------------------------------------------------
\* The state machine: the user presses one key at a time, and each handler
\* runs to completion.

\* the digit keys the model presses
Digits == {"0", "3"}
\* the number of keys pressed in one behaviour
MaxSteps == 6

\* the objects as the constructors leave them
Constructed ==
  /\ display = [currentValue |-> <<"0">>, expression |-> <<>>,
                isError |-> FALSE, displayInput |-> <<"0">>]
  /\ state = [previousValue |-> Null, currentOperator |-> NoOperator,
              waitingForOperand |-> FALSE, lastOperation |-> Null,
              justCalculated |-> FALSE]
  /\ memory = [memory |-> Zero, history |-> <<>>]
  /\ last = [key |-> "init", arg |-> "", branch |-> ""]
  /\ steps = 0
  /\ script = [keys |-> <<>>, base |-> <<>>]

Init ==
  /\ Constructed
  /\ call = NoCall

\* one handler runs to completion and leaves the objects of its outcome r
Press(key, arg, r) ==
  /\ display' = r.display
  /\ state' = r.state
  /\ memory' = r.memory
  /\ last' = [key |-> key, arg |-> arg, branch |-> r.branch]
  /\ UNCHANGED call

Step(key, arg, r) ==
  /\ steps < MaxSteps
  /\ steps' = steps + 1
  /\ Press(key, arg, r)
  /\ UNCHANGED script

InputNumber ==
  \E digit \in Digits :
    Step("inputNumber", digit, inputNumber(display, state, memory, digit))

InputOperator ==
  \E operator \in Operators :
    Step("inputOperator", operator,
         inputOperator(display, state, memory, operator))

Equals == Step("equals", "", equals(display, state, memory))

Clear == Step("clear", "", Calculator_clear(display, state, memory))

Delete == Step("delete", "", Calculator_delete(display, state, memory))

InputDecimal == Step("inputDecimal", "", inputDecimal(display, state, memory))

Percentage ==
  Step("percentage", "", Calculator_percentage(display, state, memory))

Next ==
  \/ InputNumber
  \/ InputOperator
  \/ Equals
  \/ Clear
  \/ Delete
  \/ InputDecimal
  \/ Percentage

Spec == Init /\ [][Next]_vars

\* ------------------------------------------------------------------------
\* Scripted runs: any keys first, then clear() and a chain of single-digit
\* operands and operators closed by equals().

\* the digit keys of a scripted chain
ChainDigits == {"0", "3", "7"}
\* the number of keys pressed before the chain's clear()
MaxPrelude == 2

\* the kinds of key of the longest chain, in order
ChainScript ==
  <<"clear", "digit", "operator", "digit", "operator", "digit", "equals">>

\* the kind of key the chain takes next
ChainExpects(kind) ==
  /\ script.keys # <<>>
  /\ script.keys[Len(script.keys)] # "="
  /\ Len(script.keys) < Len(ChainScript)
  /\ ChainScript[Len(script.keys) + 1] = kind

ChainPress(key, arg, r, shown) ==
  /\ Press(key, arg, r)
  /\ script' = [script EXCEPT !.keys = @ \o <<shown>>]
  /\ UNCHANGED steps

Prelude ==
  /\ script.keys = <<>>
  /\ steps < MaxPrelude
  /\ Next

ChainClear ==
  /\ script.keys = <<>>
  /\ Press("clear", "", Calculator_clear(display, state, memory))
  /\ script' = [keys |-> <<"clear">>, base |-> memory.history]
  /\ UNCHANGED steps

ChainNumber ==
  /\ ChainExpects("digit")
  /\ \E digit \in ChainDigits :
       ChainPress("inputNumber", digit,
                  inputNumber(display, state, memory, digit), digit)

ChainOperator ==
  /\ ChainExpects("operator")
  /\ \E operator \in Operators :
       ChainPress("inputOperator", operator,
                  inputOperator(display, state, memory, operator), operator)

\* equals() closes a chain wherever an operand has followed an operator
ChainEquals ==
  /\ Len(script.keys) >= 4
  /\ script.keys[Len(script.keys)] \in ChainDigits
  /\ ChainPress("equals", "", equals(display, state, memory), "=")

NextChain ==
  \/ Prelude
  \/ ChainClear
  \/ ChainNumber
  \/ ChainOperator
  \/ ChainEquals

SpecChain == Init /\ [][NextChain]_vars

\* ------------------------------------------------------------------------
\* Long entries: any keys first, then the digit and decimal keys only, often
\* enough to fill the display.

\* the digit keys of a long entry
EntryDigits == {"3"}
\* the number of keys pressed in one behaviour of a long entry
MaxEntry == 17

EntryStep(key, arg, r) ==
  /\ steps < MaxEntry
  /\ steps' = steps + 1
  /\ Press(key, arg, r)
  /\ UNCHANGED script

EntryNumber ==
  \E digit \in EntryDigits :
    EntryStep("inputNumber", digit, inputNumber(display, state, memory, digit))

EntryDecimal ==
  EntryStep("inputDecimal", "", inputDecimal(display, state, memory))

NextEntry ==
  \/ Prelude
  \/ EntryNumber
  \/ EntryDecimal

SpecEntry == Init /\ [][NextEntry]_vars

\* ------------------------------------------------------------------------
\* The history on its own: addToHistory and clearHistory called in any
\* order.  The entry recorded by the n-th call is numbered n, so that every
\* entry is told from every other; script.keys is the log of the entries
\* recorded since the last clearHistory, oldest first.

\* the number of calls made in one behaviour
MaxRecords == 102

Record ==
  /\ steps < MaxRecords
  /\ \E operation \in {NatChars(steps + 1)} :
       /\ memory' = addToHistory(memory, operation, toNumber(operation))
       /\ script' = [script EXCEPT !.keys =
                       @ \o <<[operation |-> operation,
                               result |-> toNumber(operation)]>>]
  /\ steps' = steps + 1
  /\ last' = [key |-> "addToHistory", arg |-> "", branch |-> ""]
  /\ UNCHANGED <<display, state, call>>

ClearHistory ==
  /\ steps < MaxRecords
  /\ memory' = clearHistory(memory)
  /\ script' = [script EXCEPT !.keys = <<>>]
  /\ steps' = steps + 1
  /\ last' = [key |-> "clearHistory", arg |-> "", branch |-> ""]
  /\ UNCHANGED <<display, state, call>>

NextHistory ==
  \/ Record
  \/ ClearHistory

SpecHistory == Init /\ [][NextHistory]_vars

\* ------------------------------------------------------------------------
\* The calculator with its memory in use: keys are pressed, and between them
\* the methods of calculator.memory are called with any value.

\* the number of keys pressed in one behaviour with the memory in use
MaxMemoryKeys == 3
\* the largest finite magnitude the accumulator is taken to
MaxMemory == 3

\* the values the memory methods are called with
MemoryValues == {toNumber(<<"3">>), NaN, Infinity, Null, StrError}

MemoryCall(key, m1) ==
  /\ m1.memory.k = "num" => ~AbsLess(toNumber(NatChars(MaxMemory)), m1.memory)
  /\ memory' = m1
  /\ last' = [key |-> key, arg |-> "", branch |-> ""]
  /\ UNCHANGED <<display, state, steps, script, call>>

MemoryKeys ==
  /\ steps < MaxMemoryKeys
  /\ Next

MemoryStore ==
  \E value \in MemoryValues : MemoryCall("store", Memory_store(memory, value))

MemoryClear == MemoryCall("clearMemory", Memory_clear(memory))

MemoryAdd ==
  \E value \in MemoryValues : MemoryCall("add", Memory_add(memory, value))

MemorySubtract ==
  \E value \in MemoryValues :
    MemoryCall("subtract", Memory_subtract(memory, value))

NextMemory ==
  \/ MemoryKeys
  \/ MemoryStore
  \/ MemoryClear
  \/ MemoryAdd
  \/ MemorySubtract

SpecMemory == Init /\ [][NextMemory]_vars

\* ------------------------------------------------------------------------
\* Operations.calculate called on its own, with any two values and any
\* operator string.

\* the values calculate is called with: finite numbers, the numbers that
\* are not finite, and values that are not numbers
OperandValues ==
  {toNumber(<<"0">>), toNumber(<<"3">>), toNumber(<<"-", "3">>),
   toNumber(<<"7">>), toNumber(<<"0", ".", "1">>), toNumber(<<"0", ".", "2">>),
   toNumber(<<"-", "0", ".", "5">>), toNumber(<<"1", "e", "1", "5">>),
   toNumber(<<"3", "e", "-", "1", "1">>),
   toNumber(<<"2", ".", "5", "e", "-", "1", "5">>),
   NaN, Infinity, NegInfinity, Null, StrError, StrInfinity}

\* the operator strings calculate is called with
CalcOperators == {"+", "-", "×", "*", "÷", "/", "^"}

InitCalculate ==
  /\ Constructed
  /\ \E a \in OperandValues, b \in OperandValues, operator \in CalcOperators :
       call = [fn |-> "calculate", args |-> <<a, b, operator>>,
               done |-> FALSE, result |-> Null]

Calculate ==
  /\ call.fn = "calculate"
  /\ ~call.done
  /\ call' = [call EXCEPT !.done = TRUE,
                          !.result = Operations_calculate(call.args[1],
                                                          call.args[2],
                                                          call.args[3])]
  /\ UNCHANGED <<display, state, memory, last, steps, script>>

NextCalculate == Calculate

SpecCalculate == InitCalculate /\ [][NextCalculate]_vars

\* ------------------------------------------------------------------------
\* Utils.formatNumber called on its own, with finite numbers of every
\* magnitude it tells apart.

\* the numbers formatNumber is called with: a run of digits, a power of ten
\* and a sign
FormatDigits ==
  {<<"1">>, <<"5">>, <<"1", "2", "3", "4", "5">>, [i \in 1..7 |-> "9"],
   [i \in 1..14 |-> "9"]}
FormatExponents == (0 - 14)..4
FormatValues ==
  {toNumber(sign \o ds \o <<"e">>
              \o (IF e < 0 THEN <<"-">> \o NatChars(0 - e) ELSE NatChars(e))) :
     sign \in {<<>>, <<"-">>}, ds \in FormatDigits, e \in FormatExponents}

InitFormat ==
  /\ Constructed
  /\ \E x \in FormatValues :
       call = [fn |-> "formatNumber", args |-> <<x>>, done |-> FALSE,
               result |-> <<>>]

Format ==
  /\ call.fn = "formatNumber"
  /\ ~call.done
  /\ call' = [call EXCEPT !.done = TRUE, !.result = formatNumber(call.args[1])]
  /\ UNCHANGED <<display, state, memory, last, steps, script>>

NextFormat == Format

SpecFormat == InitFormat /\ [][NextFormat]_vars

\* ------------------------------------------------------------------------
\* Long results: the keys that multiply, divide and take percentages of
\* numbers that do not divide evenly, so that results fill the display.

\* the digit keys and the operator keys of a long result
ResultDigits == {"3", "7"}
ResultOperators == {"×", "÷"}
\* the number of keys pressed in one behaviour of a long result
MaxResultKeys == 6

ResultStep(key, arg, r) ==
  /\ steps < MaxResultKeys
  /\ steps' = steps + 1
  /\ Press(key, arg, r)
  /\ UNCHANGED script

ResultNumber ==
  \E digit \in ResultDigits :
    ResultStep("inputNumber", digit, inputNumber(display, state, memory, digit))

ResultOperator ==
  \E operator \in ResultOperators :
    ResultStep("inputOperator", operator,
               inputOperator(display, state, memory, operator))

ResultPercentage ==
  ResultStep("percentage", "", Calculator_percentage(display, state, memory))

ResultEquals == ResultStep("equals", "", equals(display, state, memory))

NextResult ==
  \/ ResultNumber
  \/ ResultOperator
  \/ ResultPercentage
  \/ ResultEquals

SpecResult == Init /\ [][NextResult]_vars

\* ------------------------------------------------------------------------
\* Properties.

\* the display shows exactly str
Shows(str) == display.currentValue = str /\ display.displayInput = str

\* the number of decimal points of a string
DotCount(str) == Cardinality({i \in 1..Len(str) : str[i] = "."})

HasDigit(str) == \E i \in 1..Len(str) : IsDigit(str[i])

\* equals() or the chaining inputOperator ran last and has evaluated
EvaluatedBy(key) ==
  /\ last.key = key
  /\ last.branch \in {"ok", "fail", "chain", "chainfail"}

\* In a scripted run: the value of the digit pressed as the i-th key, the
\* result Operations.calculate gives for the first pair, and its result for
\* that and the third operand.
ChainOperand(i) == toNumber(<<script.keys[i]>>)
ChainFirst ==
  Operations_calculate(ChainOperand(2), ChainOperand(4), script.keys[3])
ChainSecond == Operations_calculate(ChainFirst, ChainOperand(6), script.keys[5])

\* C1: after clear(), a, op1, b, op2, c, equals() with single digits a, b, c
\* and successful evaluations, the display shows
\* formatNumber(calculate(calculate(a, b, op1), c, op2)); and once op2 is
\* pressed, previousValue is calculate(a, b, op1) and the display shows it.
C1_ChainLeftToRight ==
  /\ (Len(script.keys) = 5 /\ script.keys[5] \in Operators
        /\ IsNumber(ChainFirst))
       => /\ state.previousValue = ChainFirst
          /\ Shows(formatNumber(ChainFirst))
  /\ (Len(script.keys) = 7 /\ script.keys[5] \in Operators
        /\ script.keys[7] = "=" /\ IsNumber(ChainFirst) /\ IsNumber(ChainSecond))
       => Shows(formatNumber(ChainSecond))

\* 3 + 7 × 7 = has been pressed after clear(): the display shows 70, not 52
C1_Reached ==
  /\ script.keys = <<"clear", "3", "+", "7", "×", "7", "=">>
  /\ Shows(<<"7", "0">>)

\* C2: after clear(), a, op, b, equals() with single digits a, b and a
\* successful evaluation, the display shows formatNumber(calculate(a, b, op))
\* and the history is the one clear() was pressed with plus one entry in
\* front, "a op b" with that result.
C2_SingleOperation ==
  (Len(script.keys) = 5 /\ script.keys[5] = "=" /\ IsNumber(ChainFirst))
    => /\ Shows(formatNumber(ChainFirst))
       /\ memory.history =
            <<[operation |-> <<script.keys[2], " ", script.keys[3], " ",
                               script.keys[4]>>,
               result |-> ChainFirst]>> \o script.base

\* 7 - 3 = has been pressed after clear(): the display shows 4 and the
\* history has one entry more
C2_Reached ==
  /\ script.keys = <<"clear", "7", "-", "3", "=">>
  /\ Shows(<<"4">>)
  /\ Len(memory.history) = Len(script.base) + 1

\* C3 (as amended): inputOperator(op) pressed while an operator is pending
\* and waitingForOperand is true takes the value the display shows as
\* previousValue, makes op the pending operator, leaves the display string
\* as it is and adds no history entry.
C3_Reselect ==
  [][(last'.key = "inputOperator" /\ state.currentOperator # NoOperator
       /\ state.waitingForOperand)
      => /\ state'.previousValue = getCurrentValue(display)
         /\ state'.currentOperator = last'.arg
         /\ display'.currentValue = display.currentValue
         /\ display'.displayInput = display.displayInput
         /\ memory' = memory]_vars

\* an operator has just replaced a pending one
C3_Reached ==
  /\ last.key = "inputOperator"
  /\ last.branch = "reselect"
  /\ state.currentOperator = last.arg
  /\ state.waitingForOperand

\* C3 as stated: inputOperator(op) pressed while an operator is pending and
\* waitingForOperand is true leaves previousValue unchanged, makes op the
\* pending operator, leaves the display as it is and adds no history entry.
C3_Original ==
  [][(last'.key = "inputOperator" /\ state.currentOperator # NoOperator
       /\ state.waitingForOperand)
      => /\ state'.previousValue = state.previousValue
         /\ state'.currentOperator = last'.arg
         /\ display'.currentValue = display.currentValue
         /\ display'.displayInput = display.displayInput
         /\ memory' = memory]_vars

\* C4: after every equals() that ran with a pending operator and a
\* previousValue, successful or not, previousValue and currentOperator are
\* null, waitingForOperand is false and justCalculated is true.
C4_EqualsResets ==
  EvaluatedBy("equals")
    => /\ state.previousValue = Null
       /\ state.currentOperator = NoOperator
       /\ ~state.waitingForOperand
       /\ state.justCalculated

\* C5: after an equals() whose evaluation failed (the entry it added to the
\* history holds a sentinel, not a number) the display shows exactly Error
\* and is in its error state.
C5_FailureShowsError ==
  (EvaluatedBy("equals") /\ ~IsNumber(memory.history[1].result))
    => Shows(SError) /\ display.isError

\* equals() has evaluated a nonzero value ÷ 0
C5_Reached ==
  /\ EvaluatedBy("equals")
  /\ memory.history[1].result = StrInfinity
  /\ Shows(SError)

\* C6: after an inputOperator whose evaluation of the pending operation
\* failed, the display shows Error, is in its error state, and the left
\* operand of the failed operation is no longer pending.
C6_ChainFailureShowsError ==
  (EvaluatedBy("inputOperator") /\ ~IsNumber(memory.history[1].result))
    => /\ Shows(SError)
       /\ display.isError
       /\ state.previousValue = Null

\* C7: after clear() the display shows 0, the expression line is empty and
\* previousValue = null, currentOperator = null, waitingForOperand = false
\* and justCalculated = false.
C7_ClearResets ==
  last.key = "clear"
    => /\ Shows(<<"0">>)
       /\ display.expression = <<>>
       /\ ~display.isError
       /\ state.previousValue = Null
       /\ state.currentOperator = NoOperator
       /\ ~state.waitingForOperand
       /\ ~state.justCalculated

\* C8: the inputNumber(d) that follows a successful equals() leaves the
\* display showing exactly d and justCalculated false.
C8_DigitAfterEquals ==
  [][(last.key = "equals" /\ last.branch = "ok" /\ last'.key = "inputNumber")
      => /\ display'.currentValue = <<last'.arg>>
         /\ display'.displayInput = <<last'.arg>>
         /\ ~state'.justCalculated]_vars

\* 3 + = 3 has been pressed, and nothing else: the display shows 3, not 63
C8_Reached ==
  /\ steps = 4
  /\ last = [key |-> "inputNumber", arg |-> "3", branch |-> "fresh"]
  /\ Len(memory.history) = 1
  /\ memory.history[1].operation = <<"3", " ", "+", " ", "3">>
  /\ Shows(<<"3">>)
  /\ ~state.justCalculated

\* C9 (as amended): the display string never holds more than one decimal
\* point; and inputDecimal() pressed while waitingForOperand is false on a
\* display that has a decimal point changes nothing.
C9_OneDecimalPoint ==
  /\ [](DotCount(display.currentValue) <= 1
          /\ DotCount(display.displayInput) <= 1)
  /\ [][(last'.key = "inputDecimal" /\ ~state.waitingForOperand
           /\ hasDecimal(display))
          => display' = display /\ state' = state /\ memory' = memory]_vars

\* a second decimal point has been pressed on 3. and ignored
C9_Reached ==
  /\ last.key = "inputDecimal"
  /\ last.branch = "noop"
  /\ Shows(<<"3", ".">>)

\* C9 as stated: the display string never holds more than one decimal
\* point; and inputDecimal() pressed on a display that has a decimal point
\* leaves the display string as it is.
C9_Original ==
  /\ [](DotCount(display.currentValue) <= 1
          /\ DotCount(display.displayInput) <= 1)
  /\ [][(last'.key = "inputDecimal" /\ hasDecimal(display))
          => display'.currentValue = display.currentValue]_vars

\* C10: the display string is a sentinel or holds a digit and reads back as
\* a number; getCurrentValue() is never NaN and previousValue is never NaN.
C10_DisplayValid ==
  /\ \/ display.currentValue \in {SError, SInfinity, SNegInfinity}
     \/ /\ HasDigit(display.currentValue)
        /\ toNumber(display.currentValue).k = "num"
  /\ getCurrentValue(display).k # "nan"
  /\ state.previousValue.k # "nan"

\* C11: delete() pressed while waitingForOperand is true changes nothing:
\* the display, the expression line, the state and the history stay as
\* they are.
C11_DeleteWhileWaiting ==
  [][(last'.key = "delete" /\ state.waitingForOperand)
      => display' = display /\ state' = state /\ memory' = memory]_vars

\* 3 + delete has been pressed: the display still shows 3 and + is pending
C11_Reached ==
  /\ last.key = "delete"
  /\ last.branch = "noop"
  /\ state.waitingForOperand
  /\ state.currentOperator = "+"
  /\ Shows(<<"3">>)
  /\ display.expression = <<"3", " ", "+">>

\* the number of digits of a string
DigitCount(str) == Cardinality({i \in 1..Len(str) : IsDigit(str[i])})

\* C12: delete() pressed while waitingForOperand is false and no sentinel
\* is shown leaves a display string that holds a digit; and when it removes
\* the only digit of the numeral the display becomes "0".
C12_DeleteKeepsDigit ==
  [][(last'.key = "delete" /\ ~state.waitingForOperand /\ ~display.isError)
      => /\ HasDigit(display'.currentValue)
         /\ (DigitCount(display.currentValue) = 1
               /\ IsDigit(display.currentValue[Len(display.currentValue)]))
              => display'.currentValue = <<"0">>]_vars

\* C13: delete() pressed while the display shows a sentinel leaves the
\* display, the expression line and the state that clear() would leave.
C13_DeleteActsLikeClear ==
  [][(last'.key = "delete"
        /\ display.currentValue \in {SError, SInfinity, SNegInfinity})
      => /\ display' = Calculator_clear(display, state, memory).display
         /\ state' = Calculator_clear(display, state, memory).state]_vars

\* C14: percentage() leaves the display showing formatNumber(v / 100) for
\* the value v it showed, sets justCalculated, and leaves previousValue,
\* currentOperator, waitingForOperand and the history as they are; an
\* equals() pressed next with an operator pending adds the history entry of
\* calculate(previousValue, the value now displayed, currentOperator).
C14_PercentageInPlace ==
  [][/\ last'.key = "percentage"
          => /\ display'.currentValue =
                  formatNumber(jsDiv(getCurrentValue(display), Hundred))
             /\ state' = [state EXCEPT !.justCalculated = TRUE]
             /\ memory' = memory
     /\ (last.key = "percentage" /\ last'.key = "equals"
           /\ state.currentOperator # NoOperator /\ state.previousValue # Null)
          => /\ Len(memory'.history) = Len(memory.history) + 1
             /\ memory'.history[1].result =
                  Operations_calculate(state.previousValue,
                                       getCurrentValue(display),
                                       state.currentOperator)]_vars

\* 3 + 3 % = has been pressed, and nothing else: 3 + 0.03 was evaluated
C14_Reached ==
  /\ steps = 5
  /\ last.key = "equals"
  /\ Len(memory.history) = 1
  /\ memory.history[1].operation = <<"3", " ", "+", " ", "0", ".", "0", "3">>
  /\ Shows(<<"3", ".", "0", "3">>)
  /\ state.justCalculated

\* C15: inputNumber(d) and inputDecimal() never make the display string
\* longer than 15 characters; pressed on a display string of 15 characters
\* while neither waitingForOperand nor justCalculated is set, they leave the
\* display and the state as they are.
C15_EntryCapped ==
  [][last'.key \in {"inputNumber", "inputDecimal"}
      => /\ Len(display'.currentValue) > Len(display.currentValue)
              => Len(display'.currentValue) <= 15
         /\ (Len(display.currentValue) = 15 /\ ~state.waitingForOperand
               /\ ~state.justCalculated)
              => display' = display /\ state' = state]_vars

\* fifteen 3s have been typed and the decimal key pressed as the sixteenth
\* key: the display holds the fifteen 3s and no decimal point
C15_Reached ==
  /\ steps = 16
  /\ last.key = "inputDecimal"
  /\ Shows([i \in 1..15 |-> "3"])
  /\ ~state.waitingForOperand
  /\ ~state.justCalculated

\* the limits getHistory is asked with
HistoryLimits == {0, 1, 10, 99, 100, 101}

\* C16: with n entries recorded since the last clearHistory, the history
\* holds the min(n, 100) entries recorded last, the latest first, and
\* getHistory(limit) is its first min(limit, length) entries.
C16_HistoryBounded ==
  /\ Len(memory.history) = Min(Len(script.keys), 100)
  /\ \A i \in 1..Len(memory.history) :
       memory.history[i] = script.keys[Len(script.keys) - i + 1]
  /\ \A limit \in HistoryLimits :
       /\ Len(getHistory(memory, limit)) = Min(limit, Len(memory.history))
       /\ \A i \in 1..Len(getHistory(memory, limit)) :
            getHistory(memory, limit)[i] = memory.history[i]

\* 101 entries have been recorded in a row: the history holds 100, the
\* first one recorded is gone and the second is the oldest
C16_Reached ==
  /\ Len(script.keys) = 101
  /\ Len(memory.history) = 100
  /\ memory.history[1].operation = <<"1", "0", "1">>
  /\ memory.history[100].operation = <<"2">>

\* C17: clear() leaves the memory accumulator and the history as they are,
\* and the accumulator changes only in a call of the memory's store, add,
\* subtract or clear, never in a key handler.
C17_MemoryUntouched ==
  [][/\ last'.key = "clear" => memory' = memory
     /\ memory'.memory # memory.memory
          => last'.key \in {"store", "add", "subtract", "clearMemory"}]_vars

\* clear() has been pressed with 3 in the accumulator and an entry in the
\* history, and both are still there
C17_Reached ==
  /\ last.key = "clear"
  /\ memory.memory = toNumber(<<"3">>)
  /\ Len(memory.history) = 1
  /\ Shows(<<"0">>)

\* a handler has returned the objects it leaves
Returned(r) ==
  /\ r.display.currentValue # <<>>
  /\ r.display.isError \in BOOLEAN
  /\ r.state.waitingForOperand \in BOOLEAN
  /\ Len(r.memory.history) >= Len(memory.history)

\* C18: while the display shows a sentinel every handler still runs to its
\* end, and inputNumber(d) leaves the display showing exactly d, out of its
\* error state, for each of the ten digits d.
C18_ErrorRecoverable ==
  display.currentValue \in {SError, SInfinity, SNegInfinity}
    => /\ \A i \in 1..10 :
            /\ inputNumber(display, state, memory, DigitChars[i]).display.currentValue
                 = <<DigitChars[i]>>
            /\ inputNumber(display, state, memory, DigitChars[i]).display.displayInput
                 = <<DigitChars[i]>>
            /\ ~inputNumber(display, state, memory, DigitChars[i]).display.isError
       /\ \A operator \in Operators :
            Returned(inputOperator(display, state, memory, operator))
       /\ Returned(equals(display, state, memory))
       /\ Returned(Calculator_clear(display, state, memory))
       /\ Returned(Calculator_delete(display, state, memory))
       /\ Returned(inputDecimal(display, state, memory))
       /\ Returned(Calculator_percentage(display, state, memory))

\* ÷ = 3 has been pressed: 0 ÷ 0 failed, and the digit pressed on the
\* Error display is shown alone
C18_Reached ==
  /\ steps = 3
  /\ last = [key |-> "inputNumber", arg |-> "3", branch |-> "append"]
  /\ Len(memory.history) = 1
  /\ memory.history[1].result = StrError
  /\ Shows(<<"3">>)
  /\ ~display.isError

\* C19: calculate(a, 0, '÷') for a finite number a returns the sentinel
\* Error when a is 0, Infinity when a > 0 and -Infinity when a < 0.
C19_DivideByZero ==
  (call.done /\ call.args[1].k = "num" /\ call.args[2] = Zero
     /\ call.args[3] = "÷")
    => call.result = IF call.args[1].mag = <<>> THEN StrError
                     ELSE IF call.args[1].neg THEN StrNegInfinity
                     ELSE StrInfinity

\* calculate(-3, 0, '÷') has returned -Infinity
C19_Reached ==
  /\ call.done
  /\ call.args = <<toNumber(<<"-", "3">>), Zero, "÷">>
  /\ call.result = StrNegInfinity

\* C20: calculate(a, b, op) returns the sentinel Error whenever a or b is
\* not a number or is NaN, +Infinity or -Infinity, whatever op is.
C20_RejectsNonFinite ==
  (call.done /\ (call.args[1].k # "num" \/ call.args[2].k # "num"))
    => call.result = StrError

\* C21: the accumulator is a finite number in every state: store, add and
\* subtract leave it as it is when called with a value that is not a number
\* or is NaN, +Infinity or -Infinity.
C21_AccumulatorFinite == memory.memory.k = "num"

\* C22: for finite numbers a and b, calculate(a, b, '+') is
\* calculate(b, a, '+') and calculate(a, b, '-') is the negation of
\* calculate(b, a, '-').
C22_AddSubSymmetric ==
  (call.done /\ call.args[1].k = "num" /\ call.args[2].k = "num")
    => /\ call.args[3] = "+"
            => call.result =
                 Operations_calculate(call.args[2], call.args[1], "+")
       /\ call.args[3] = "-"
            => call.result =
                 jsNeg(Operations_calculate(call.args[2], call.args[1], "-"))

\* C23: for a finite number x, formatting the number that the string
\* formatNumber(x) reads back as gives formatNumber(x) again.
C23_FormatRoundTrip ==
  call.done => formatNumber(toNumber(call.result)) = call.result

\* C24: equals() pressed while currentOperator or previousValue is null
\* changes nothing: the display, the expression line, the state and the
\* history stay as they are.
C24_EqualsWithoutPending ==
  [][(last'.key = "equals"
        /\ (state.currentOperator = NoOperator \/ state.previousValue = Null))
      => display' = display /\ state' = state /\ memory' = memory]_vars

\* 3 + 3 = = has been pressed, and nothing else: the second equals() left
\* the result 6, its label and the one history entry
C24_Reached ==
  /\ steps = 5
  /\ last.key = "equals"
  /\ last.branch = "noop"
  /\ Len(memory.history) = 1
  /\ memory.history[1].operation = <<"3", " ", "+", " ", "3">>
  /\ Shows(<<"6">>)
  /\ display.expression = <<"3", " ", "+", " ", "3", " ", "=">>
  /\ state.justCalculated

\* an operator or a previousValue is pending in the state s
Pending(s) == s.currentOperator # NoOperator \/ s.previousValue # Null

\* C25 (as amended): a state in which justCalculated is true while an
\* operator is pending is entered only by percentage(): every other handler
\* leaves justCalculated true only with no operator pending, unless it was
\* entered in such a state.
C25_JustCalculatedIdle ==
  [][(state'.justCalculated /\ Pending(state'))
      => \/ last'.key = "percentage"
         \/ state.justCalculated /\ Pending(state)]_vars

\* 3 + 3 = has been pressed: the result is shown, justCalculated is true
\* and nothing is pending
C25_Reached ==
  /\ last.key = "equals"
  /\ last.branch = "ok"
  /\ state.justCalculated
  /\ ~Pending(state)
  /\ Shows(<<"6">>)

\* C25 as stated: whenever justCalculated is true, currentOperator and
\* previousValue are null.
C25_Original ==
  state.justCalculated
    => state.currentOperator = NoOperator /\ state.previousValue = Null

\* C26: while an operator is pending the expression line reads
\* formatNumber(previousValue), a space and the operator; while none is
\* pending it does not end with an operator; and after a successful
\* equals() it ends with " =".
C26_ExpressionLabel ==
  /\ state.currentOperator # NoOperator
       => display.expression =
            formatNumber(state.previousValue) \o <<" ", state.currentOperator>>
  /\ (state.currentOperator = NoOperator /\ display.expression # <<>>)
       => display.expression[Len(display.expression)] \notin Operators
  /\ (last.key = "equals" /\ last.branch = "ok")
       => /\ Len(display.expression) > 2
          /\ From(display.expression, Len(display.expression) - 1) = <<" ", "=">>

\* C27: whenever the display string is longer than 15 characters and holds
\* no "e", the text shown is the exponential notation, with 6 fractional
\* digits, of the value getCurrentValue() reads from the display string.
C27_ShownTextIsValue ==
  (Len(display.currentValue) > 15 /\ ~Includes(display.currentValue, "e"))
    => display.displayInput = jsToExponential(getCurrentValue(display), 6)

\* C28: in every reachable state previousValue is null exactly when
\* currentOperator is null, and waitingForOperand holds only while both are
\* set.
C28_PendingConsistent ==
  /\ (state.previousValue = Null) <=> (state.currentOperator = NoOperator)
  /\ state.waitingForOperand
       => (state.previousValue # Null /\ state.currentOperator # NoOperator)

\* an operation was pending, an operand was entered, and equals() or clear()
\* has reset the pending fields
C28_Reached ==
  /\ last.key \in {"equals", "clear"}
  /\ steps >= 3
  /\ state.previousValue = Null
  /\ state.currentOperator = NoOperator
  /\ ~state.waitingForOperand
  /\ memory.history # <<>>

\* the step evaluates a pending pair: equals() with an operation pending, or
\* inputOperator with an operation pending and an operand entered since
Evaluates ==
  /\ state.previousValue # Null
  /\ state.currentOperator # NoOperator
  /\ \/ last'.key = "equals"
     \/ last'.key = "inputOperator" /\ ~state.waitingForOperand

\* C29: a step that evaluates a pending pair puts exactly one entry in front
\* of the history (the oldest leaves beyond HistoryLimit); the entry holds
\* a number when the evaluation succeeds and a sentinel when it fails. Every
\* other step leaves the history as it is.
C29_HistoryPerEvaluation ==
  [][IF Evaluates
       THEN /\ Len(memory'.history) = Min(Len(memory.history) + 1, HistoryLimit)
            /\ SubSeq(memory'.history, 2, Len(memory'.history))
                 = SubSeq(memory.history, 1, Len(memory'.history) - 1)
            /\ last'.branch \in {"ok", "chain"}
                 => IsNumber(memory'.history[1].result)
            /\ last'.branch \in {"fail", "chainfail"}
                 => memory'.history[1].result
                      \in {StrError, StrInfinity, StrNegInfinity}
            /\ last'.branch \in {"ok", "chain", "fail", "chainfail"}
     ELSE memory'.history = memory.history]_vars

\* + 3 ÷ 0 = has been pressed: the chained ÷ recorded 0 + 3 with its result,
\* the failed equals() recorded 3 ÷ 0 with a sentinel in front of it
C29_Reached ==
  /\ steps = 5
  /\ last.key = "equals"
  /\ last.branch = "fail"
  /\ Len(memory.history) = 2
  /\ memory.history[1].operation = <<"3", " ", "÷", " ", "0">>
  /\ memory.history[1].result = StrInfinity
  /\ memory.history[2].operation = <<"0", " ", "+", " ", "3">>
  /\ IsNumber(memory.history[2].result)

\* C30: a digit pressed right after inputDecimal(), with the display string
\* still below MaxDisplayLen characters, leaves a display string that holds
\* a decimal point and ends with that digit.
C30_DecimalKept ==
  [][(/\ last.key = "inputDecimal"
      /\ last'.key = "inputNumber"
      /\ Len(display.currentValue) < MaxDisplayLen)
     => /\ Includes(display'.currentValue, ".")
        /\ display'.currentValue[Len(display'.currentValue)] = last'.arg]_vars

====
